---- MODULE Spec2Model ----
(***************************************************************************)
(* SimpleFS (src/fs.c): the on-disk layout, the two in-memory bitmaps and  *)
(* the operations format, mount, create, delete, getsize, read, write and  *)
(* defrag, modelled at byte level.                                         *)
(*                                                                         *)
(* A disk block is a function from byte offsets 0..DISK_BLOCK_SIZE-1 to    *)
(* bytes 0..255; the views of union fs_block (superblock, inode array,     *)
(* pointer array, raw data) are decoded from those bytes as little-endian  *)
(* signed 32-bit integers, so that a block written through one view and    *)
(* read through another behaves as the union does.                         *)
(*                                                                         *)
(* DISK_BLOCK_SIZE is scaled from 4096 to 64 bytes.  INODES_PER_BLOCK and  *)
(* DATA_POINTERS_PER_BLOCK are derived from it exactly as the comments of  *)
(* src/fs.c:17-19 derive them, so the layout keeps its proportions: an     *)
(* inode is 32 bytes, a pointer 4 bytes, 5 direct pointers per inode.      *)
(* The byte counts of the specification scale with it: 20480 is            *)
(* DATA_POINTERS_PER_INODE * DISK_BLOCK_SIZE, 4214784 is MaxFileSize.      *)
(* One proportion is not kept: the source has ninodes > nblocks (128       *)
(* inodes per table block, a tenth of the blocks are table blocks), the    *)
(* model has ninodes < nblocks.  The properties below therefore range over *)
(* the inumbers and blocks of the geometry fs_format wrote, not over what  *)
(* a superblock that was overwritten later says.                           *)
(*                                                                         *)
(* Memory the program reads without having assigned it (the direct[] and   *)
(* indirect fields fs_create writes to disk, the tail of fs_read's pointer *)
(* array, malloc'ed bitmaps and buffers, reads past fs_getsize's buffer)   *)
(* holds a value drawn from Garbage when the process starts.  A disk       *)
(* access outside the disk, and a bitmap access outside its storage, end   *)
(* the process; a new process on the same disk image follows.              *)
(***************************************************************************)
EXTENDS Integers, Sequences, FiniteSets, TLC

\* ------------------------------------------------------------ constants
\* src/disk.h:4 has 4096; a bound of the model
DISK_BLOCK_SIZE == 64
FS_MAGIC == -252693488   \* 0xf0f03410 as a signed 32-bit int
DATA_POINTERS_PER_INODE == 5
DATA_POINTER_SIZE == 4
INODE_SIZE == 32
INODES_PER_BLOCK == DISK_BLOCK_SIZE \div INODE_SIZE
DATA_POINTERS_PER_BLOCK == DISK_BLOCK_SIZE \div DATA_POINTER_SIZE
INODE_TABLE_START_BLOCK == 1

\* ------------------------------------------------------------ bounds
\* (with DISK_BLOCK_SIZE above, MaxSessionOps, MaxFormatBlocks and LargeDiskSize
\* below)
\* nblocks given to disk_init (src/shell.c:26)
DiskSize == 20
\* number of shell commands issued in one behaviour
MaxOps == 6

Blocks == 0 .. (DiskSize - 1)
ByteIdx == 0 .. (DISK_BLOCK_SIZE - 1)
ZeroBlock == [x \in ByteIdx |-> 0]
DirectBytes == DATA_POINTERS_PER_INODE * DISK_BLOCK_SIZE
MaxFileSize == (DATA_POINTERS_PER_INODE + DATA_POINTERS_PER_BLOCK) * DISK_BLOCK_SIZE

min(first, second) == IF first < second THEN first ELSE second

\* ------------------------------------------------------------ block codec
\* byte n (0 = least significant) of the two's complement form of v
ByteOf(v, n) ==
  CASE n = 0 -> v % 256
    [] n = 1 -> (v \div 256) % 256
    [] n = 2 -> (v \div 65536) % 256
    [] OTHER -> (v \div 16777216) % 256

\* the int a block holds at int index k (pointers[k] of union fs_block)
GetInt(blk, k) ==
  LET b3 == blk[4 * k + 3]
  IN  blk[4 * k] + 256 * blk[4 * k + 1] + 65536 * blk[4 * k + 2]
        + 16777216 * (IF b3 >= 128 THEN b3 - 256 ELSE b3)

PutInt(blk, k, v) ==
  [blk EXCEPT ![4 * k] = ByteOf(v, 0), ![4 * k + 1] = ByteOf(v, 1),
              ![4 * k + 2] = ByteOf(v, 2), ![4 * k + 3] = ByteOf(v, 3)]

IntsPerInode == INODE_SIZE \div DATA_POINTER_SIZE

\* struct fs_superblock, read from a block
SuperOf(blk) ==
  [magic |-> GetInt(blk, 0), nblocks |-> GetInt(blk, 1),
   ninodeblocks |-> GetInt(blk, 2), ninodes |-> GetInt(blk, 3)]

\* struct fs_inode: inodes[slot] of a block
InodeOf(blk, slot) ==
  LET base == slot * IntsPerInode
  IN  [isvalid |-> GetInt(blk, base),
       size |-> GetInt(blk, base + 1),
       direct |-> [d \in 0 .. (DATA_POINTERS_PER_INODE - 1) |-> GetInt(blk, base + 2 + d)],
       indirect |-> GetInt(blk, base + 2 + DATA_POINTERS_PER_INODE)]

PutIsvalid(blk, slot, v) == PutInt(blk, slot * IntsPerInode, v)
PutSize(blk, slot, v) == PutInt(blk, slot * IntsPerInode + 1, v)
PutDirect(blk, slot, d, v) == PutInt(blk, slot * IntsPerInode + 2 + d, v)
PutIndirect(blk, slot, v) ==
  PutInt(blk, slot * IntsPerInode + 2 + DATA_POINTERS_PER_INODE, v)

\* inodes[slot] = inode, for a whole struct
PutInode(blk, slot, ino) ==
  LET RECURSIVE dir(_, _)
      dir(b, d) == IF d >= DATA_POINTERS_PER_INODE THEN b
                   ELSE dir(PutDirect(b, slot, d, ino.direct[d]), d + 1)
  IN  PutIndirect(dir(PutSize(PutIsvalid(blk, slot, ino.isvalid), slot, ino.size), 0),
                  slot, ino.indirect)

\* ------------------------------------------------------------ bitmap
\* bitmap_create: (n_bits + 7) / 8 bytes of malloc'ed storage, whose bits all
\* hold `fill` until set; a negative n_bits yields NULL, modelled as <<>>, like
\* the bitmaps of a process that has not mounted
bitmap_create(n_bits, fill) ==
  IF n_bits < 0 THEN << >>
  ELSE [i \in 0 .. (8 * ((n_bits + 7) \div 8) - 1) |-> fill]

\* an index inside the storage of the bitmap; an access outside it is a
\* fault that ends the process
BitOk(bitmap, idx) == idx \in DOMAIN bitmap

bitmap_test(bitmap, idx) == bitmap[idx] = 1

bitmap_set(bitmap, idx, val) == [bitmap EXCEPT ![idx] = IF val THEN 1 ELSE 0]

\* ------------------------------------------------------------ process state
VARIABLES
  disk,                \* the disk image: block number -> block
  is_mounted,          \* src/fs.c:68
  inode_table_bitmap,  \* src/fs.c:66, bit 1 = free
  disk_block_bitmap,   \* src/fs.c:67, bit 1 = free
  wit,                 \* the statics of walk_inode_table, src/fs.c:127-129
  junk,                \* the int that memory this process never assigned holds
  phase,               \* how the commands so far are arranged (history only)
  last,                \* the last command, its arguments and what it returned
  nops                 \* commands issued so far

vars == <<disk, is_mounted, inode_table_bitmap, disk_block_bitmap, wit, junk, phase, last, nops>>

\* the statics of walk_inode_table as a fresh process holds them
WitInit == [buffer_block |-> ZeroBlock, curr_inumber |-> 1, ninodes |-> -1]

\* the globals of a process that has just started on disk image dsk
Fresh(dsk) ==
  [disk |-> dsk, is_mounted |-> FALSE, inode_table_bitmap |-> << >>,
   disk_block_bitmap |-> << >>, wit |-> WitInit]

Cur ==
  [disk |-> disk, is_mounted |-> is_mounted, inode_table_bitmap |-> inode_table_bitmap,
   disk_block_bitmap |-> disk_block_bitmap, wit |-> wit]

\* an operation returned v in state s / was ended by abort or a fault in state s
Ret(s, v) == [st |-> s, ret |-> v, abort |-> FALSE]
Abort(s) == [st |-> Fresh(s.disk), ret |-> 0, abort |-> TRUE]

NoInode ==
  [isvalid |-> 0, size |-> 0,
   direct |-> [d \in 0 .. (DATA_POINTERS_PER_INODE - 1) |-> 0], indirect |-> 0]

\* ------------------------------------------------------------ disk emulator
\* disk_read / disk_write accept block numbers 0 .. disk_size()-1; any other
\* number is a programming error, which ends the process
DiskOk(b) == b \in DOMAIN disk

\* ------------------------------------------------------------ walkers
\* "initial setup": the first call of a process reads ninodes from the superblock
WitSetup(w, dsk) ==
  IF w.ninodes < 0
  THEN [w EXCEPT !.ninodes = SuperOf(dsk[0]).ninodes,
                 !.buffer_block = PutSize(dsk[0], 0, -1)]
  ELSE w

\* "handle arg": a from_inumber >= 1 below ninodes moves the cursor
WitSeek(w, from_inumber) ==
  IF from_inumber >= 1 /\ from_inumber < w.ninodes
  THEN [w EXCEPT
          !.buffer_block =
             IF w.curr_inumber \div INODES_PER_BLOCK # from_inumber \div INODES_PER_BLOCK
             THEN PutSize(@, 0, -1) ELSE @,
          !.curr_inumber = from_inumber]
  ELSE w

\* the rest of walk_inode_table, for the statics w after setup and seek
WitYield(w, from_inumber, dsk, should_load_block) ==
  IF from_inumber >= w.ninodes
  THEN [wit |-> w, ret |-> -1, inode |-> NoInode, abort |-> FALSE]
  ELSE IF w.curr_inumber >= w.ninodes
  THEN [wit |-> w, ret |-> 0, inode |-> NoInode, abort |-> FALSE]
  ELSE IF should_load_block
            /\ ~DiskOk(w.curr_inumber \div INODES_PER_BLOCK + INODE_TABLE_START_BLOCK)
  THEN [wit |-> w, ret |-> 0, inode |-> NoInode, abort |-> TRUE]
  ELSE [wit |-> [w EXCEPT
                   !.buffer_block =
                      IF should_load_block
                      THEN dsk[w.curr_inumber \div INODES_PER_BLOCK + INODE_TABLE_START_BLOCK]
                      ELSE @,
                   !.curr_inumber = @ + 1],
        ret |-> w.curr_inumber,
        inode |-> InodeOf(IF should_load_block
                          THEN dsk[w.curr_inumber \div INODES_PER_BLOCK
                                     + INODE_TABLE_START_BLOCK]
                          ELSE w.buffer_block,
                          w.curr_inumber % INODES_PER_BLOCK),
        abort |-> FALSE]

\* should_load_block of walk_inode_table
WitShouldLoad(w) ==
  GetInt(w.buffer_block, 1) < 0 \/ w.curr_inumber % INODES_PER_BLOCK = 0

WitStep(w, from_inumber, dsk) == WitYield(w, from_inumber, dsk, WitShouldLoad(w))

\* one call: the statics after it, what it returns (an inode number, 0 at the
\* end of the table, -1 for a from_inumber >= ninodes), *next_inode
walk_inode_table(from_inumber, w, dsk) ==
  WitStep(WitSeek(WitSetup(w, dsk), from_inumber), from_inumber, dsk)

\* what call number curr_block (0 for the seeding call) of walk_inode_data
\* returns for a seed inode, with data = NULL
walk_inode_data(inode, curr_block, dsk) ==
  IF DISK_BLOCK_SIZE * curr_block >= inode.size
       \/ curr_block >= DATA_POINTERS_PER_INODE + DATA_POINTERS_PER_BLOCK
  THEN [ret |-> -1, abort |-> FALSE]
  ELSE IF curr_block < DATA_POINTERS_PER_INODE
  THEN [ret |-> inode.direct[curr_block], abort |-> FALSE]
  ELSE IF ~DiskOk(inode.indirect)
  THEN [ret |-> -1, abort |-> TRUE]
  ELSE [ret |-> GetInt(dsk[inode.indirect], curr_block - DATA_POINTERS_PER_INODE),
        abort |-> FALSE]

\* the block numbers a caller's loop
\*   for (b = walk_inode_data(0, &inode, NULL); b > 0; b = walk_inode_data(0, NULL, NULL))
\* runs its body for, in order, and whether the walk aborted
RECURSIVE WalkFrom(_, _, _, _)
WalkFrom(inode, curr_block, dsk, acc) ==
  LET r == walk_inode_data(inode, curr_block, dsk)
  IN  IF r.abort THEN [blocks |-> acc, abort |-> TRUE]
      ELSE IF r.ret > 0 THEN WalkFrom(inode, curr_block + 1, dsk, Append(acc, r.ret))
      ELSE [blocks |-> acc, abort |-> FALSE]

DataWalk(inode, dsk) == WalkFrom(inode, 0, dsk, << >>)

\* ------------------------------------------------------------ format
\* isvalid = 0 in every inode of a table block
RECURSIVE Invalidate(_, _)
Invalidate(blk, i) ==
  IF i >= INODES_PER_BLOCK THEN blk ELSE Invalidate(PutIsvalid(blk, i, 0), i + 1)

\* disk_size(): the number of blocks of the image
disk_size(dsk) == Cardinality(DOMAIN dsk)

fs_format(s) ==
  IF s.is_mounted THEN Ret(s, 0)
  ELSE
    LET nblocks == disk_size(s.disk)
        ninodeblocks_temp == nblocks \div 10
        superblock ==
          PutInt(PutInt(PutInt(PutInt(s.disk[0], 0, FS_MAGIC), 1, nblocks),
                        2, ninodeblocks_temp), 3, ninodeblocks_temp * INODES_PER_BLOCK)
    IN  Ret([s EXCEPT !.disk =
               [b \in DOMAIN s.disk |->
                  IF b = 0 THEN superblock
                  ELSE IF b - INODE_TABLE_START_BLOCK \in 0 .. (ninodeblocks_temp - 1)
                  THEN Invalidate(s.disk[b], 0)
                  ELSE s.disk[b]]], 1)

\* ------------------------------------------------------------ mount
\* the body of the inner loop of fs_mount over the blocks a live inode's walk
\* yields; bbm = << >> after a bitmap index outside the storage
RECURSIVE MarkBlocks(_, _, _, _)
MarkBlocks(bbm, inode, blocks, k) ==
  IF k > Len(blocks) THEN [bitmap |-> bbm, abort |-> FALSE]
  ELSE
    LET data_block_num == blocks[k]
        markind == data_block_num = DATA_POINTERS_PER_INODE
    IN  IF (markind /\ ~BitOk(bbm, inode.indirect)) \/ ~BitOk(bbm, data_block_num)
        THEN [bitmap |-> bbm, abort |-> TRUE]
        ELSE MarkBlocks(
               bitmap_set(IF markind THEN bitmap_set(bbm, inode.indirect, FALSE) ELSE bbm,
                          data_block_num, FALSE),
               inode, blocks, k + 1)

\* the loop of fs_mount over walk_inode_table: MountScan makes the call with
\* from_inumber, MountBody runs the loop body on what the call returned (r)
RECURSIVE MountScan(_, _, _, _, _)
RECURSIVE MountBody(_, _, _, _)

MountMarked(r, marked, ibm, dsk) ==
  IF marked.abort
  THEN [wit |-> r.wit, ibm |-> ibm, bbm |-> marked.bitmap, abort |-> TRUE]
  ELSE MountScan(-1, r.wit, ibm, marked.bitmap, dsk)

MountWalked(r, walk, ibm, bbm, dsk) ==
  IF walk.abort THEN [wit |-> r.wit, ibm |-> ibm, bbm |-> bbm, abort |-> TRUE]
  ELSE MountMarked(r, MarkBlocks(bbm, r.inode, walk.blocks, 1), ibm, dsk)

MountBody(r, ibm, bbm, dsk) ==
  IF r.abort THEN [wit |-> r.wit, ibm |-> ibm, bbm |-> bbm, abort |-> TRUE]
  ELSE IF r.ret <= 0 THEN [wit |-> r.wit, ibm |-> ibm, bbm |-> bbm, abort |-> FALSE]
  ELSE IF ~BitOk(ibm, r.ret)
  THEN [wit |-> r.wit, ibm |-> ibm, bbm |-> bbm, abort |-> TRUE]
  ELSE IF r.inode.isvalid = 0
  THEN MountScan(-1, r.wit, bitmap_set(ibm, r.ret, TRUE), bbm, dsk)
  ELSE MountWalked(r, DataWalk(r.inode, dsk), bitmap_set(ibm, r.ret, FALSE), bbm, dsk)

MountScan(from_inumber, w, ibm, bbm, dsk) ==
  MountBody(walk_inode_table(from_inumber, w, dsk), ibm, bbm, dsk)

\* block_free after the first loop of fs_mount
MountBlocksInit(bbm0, super) ==
  [i \in DOMAIN bbm0 |->
     IF i < super.nblocks
     THEN (IF i < super.ninodeblocks + 1 THEN 0 ELSE 1)
     ELSE bbm0[i]]

MountDone(s, scan) ==
  IF scan.abort THEN Abort(s)
  ELSE Ret([s EXCEPT !.inode_table_bitmap = scan.ibm,
                     !.disk_block_bitmap = scan.bbm,
                     !.wit = scan.wit,
                     !.is_mounted = TRUE], 1)

MountSuper(s, super, fill) ==
  IF super.magic # FS_MAGIC THEN Ret(s, 0)
  ELSE IF super.ninodes <= 0 THEN Abort(s)
  ELSE MountDone(s, MountScan(1, s.wit,
                              bitmap_set(bitmap_create(super.ninodes, fill), 0, FALSE),
                              MountBlocksInit(bitmap_create(super.nblocks, fill), super),
                              s.disk))

\* fill: what the malloc'ed bitmaps hold before fs_mount sets their bits
fs_mount(s, fill) ==
  IF s.is_mounted THEN Ret(s, 0) ELSE MountSuper(s, SuperOf(s.disk[0]), fill)

\* ------------------------------------------------------------ debug
\* fs_debug prints; what it leaves behind are the statics of walk_inode_table.
\* DebugScan makes the call with from_inumber, DebugBody runs the loop body on
\* what the call returned (r): the data walk of a valid inode reads its
\* indirect block
RECURSIVE DebugScan(_, _, _)

DebugBody(r, dsk) ==
  IF r.abort THEN [wit |-> r.wit, abort |-> TRUE]
  ELSE IF r.ret <= 0 THEN [wit |-> r.wit, abort |-> FALSE]
  ELSE IF r.inode.isvalid # 0 /\ DataWalk(r.inode, dsk).abort
  THEN [wit |-> r.wit, abort |-> TRUE]
  ELSE DebugScan(-1, r.wit, dsk)

DebugScan(from_inumber, w, dsk) == DebugBody(walk_inode_table(from_inumber, w, dsk), dsk)

DebugDone(s, scan) ==
  IF scan.abort THEN Abort(s) ELSE Ret([s EXCEPT !.wit = scan.wit], 0)

fs_debug(s) == DebugDone(s, DebugScan(1, s.wit, s.disk))

\* ------------------------------------------------------------ create
\* the lowest i in from .. ninodes-1 whose bit is set, 0 if none, -1 when the
\* search leaves the storage of the bitmap
RECURSIVE FirstFreeInode(_, _, _)
FirstFreeInode(ibm, i, ninodes) ==
  IF i >= ninodes THEN 0
  ELSE IF ~BitOk(ibm, i) THEN -1
  ELSE IF bitmap_test(ibm, i) THEN i
  ELSE FirstFreeInode(ibm, i + 1, ninodes)

\* a variant of fs_create that takes the highest free inumber instead of the
\* lowest: C9's formula must tell it from fs_create
fs_create_highest(s, g) ==
  LET super == SuperOf(s.disk[0])
      free == {i \in 1 .. (super.ninodes - 1) :
                 BitOk(s.inode_table_bitmap, i) /\ bitmap_test(s.inode_table_bitmap, i)}
      inumber == IF free = {} THEN 0 ELSE CHOOSE i \in free : \A k \in free : k <= i
      block_num == INODE_TABLE_START_BLOCK + (inumber \div INODES_PER_BLOCK)
      new_inode == [isvalid |-> 1, size |-> 0,
                    direct |-> [d \in 0 .. (DATA_POINTERS_PER_INODE - 1) |-> g],
                    indirect |-> g]
  IN  IF ~s.is_mounted \/ inumber = 0 THEN Ret(s, 0)
      ELSE Ret([s EXCEPT
                  !.disk[block_num] = PutInode(@, inumber % INODES_PER_BLOCK, new_inode),
                  !.inode_table_bitmap = bitmap_set(@, inumber, FALSE)], inumber)

\* g: what the fields of new_inode that fs_create never assigns (direct[],
\* indirect) hold
fs_create(s, g) ==
  LET super == SuperOf(s.disk[0])
      inumber == FirstFreeInode(s.inode_table_bitmap, 1, super.ninodes)
      block_num == INODE_TABLE_START_BLOCK + (inumber \div INODES_PER_BLOCK)
      block_offset == inumber % INODES_PER_BLOCK
      new_inode == [isvalid |-> 1, size |-> 0,
                    direct |-> [d \in 0 .. (DATA_POINTERS_PER_INODE - 1) |-> g],
                    indirect |-> g]
  IN  IF ~s.is_mounted THEN Ret(s, 0)
      ELSE IF inumber < 0 THEN Abort(s)
      ELSE IF inumber = 0 THEN Ret(s, 0)
      ELSE IF ~DiskOk(block_num) THEN Abort(s)
      ELSE Ret([s EXCEPT
                  !.disk[block_num] = PutInode(@, block_offset, new_inode),
                  !.inode_table_bitmap = bitmap_set(@, inumber, FALSE)], inumber)

\* ------------------------------------------------------------ delete
\* bitmap_set(disk_block_bitmap, i, 1) for the blocks of a walk
RECURSIVE FreeBlocks(_, _, _)
FreeBlocks(bbm, blocks, k) ==
  IF k > Len(blocks) THEN [bitmap |-> bbm, abort |-> FALSE]
  ELSE IF ~BitOk(bbm, blocks[k]) THEN [bitmap |-> bbm, abort |-> TRUE]
  ELSE FreeBlocks(bitmap_set(bbm, blocks[k], TRUE), blocks, k + 1)

fs_delete(s, inumber) ==
  LET super == SuperOf(s.disk[0])
      block_num == INODE_TABLE_START_BLOCK + (inumber \div INODES_PER_BLOCK)
      block_offset == inumber % INODES_PER_BLOCK
      inode == InodeOf(s.disk[block_num], block_offset)
      dsk1 == [s.disk EXCEPT ![block_num] = PutIsvalid(@, block_offset, 0)]
      walk == DataWalk(inode, dsk1)
      freed == FreeBlocks(s.disk_block_bitmap, walk.blocks, 1)
  IN  IF ~s.is_mounted THEN Ret(s, 0)
      ELSE IF inumber < 1 \/ inumber >= super.ninodes THEN Ret(s, 0)
      ELSE IF ~DiskOk(block_num) THEN Abort(s)
      ELSE IF inode.isvalid = 0 THEN Ret(s, 0)
      ELSE IF walk.abort \/ freed.abort \/ ~BitOk(s.inode_table_bitmap, inumber)
      THEN Abort([s EXCEPT !.disk = dsk1])
      ELSE Ret([s EXCEPT !.disk = dsk1,
                         !.disk_block_bitmap = freed.bitmap,
                         !.inode_table_bitmap = bitmap_set(@, inumber, TRUE)], 1)

\* ------------------------------------------------------------ getsize
\* fs_getsize indexes inodes[inumber] of the buffer that holds block 0.  For
\* inumber >= INODES_PER_BLOCK the access is past the end of the buffer and
\* reads whatever the stack holds there: u.isvalid and u.size
fs_getsize(s, inumber, u) ==
  LET buffer_block == s.disk[0]
      inode_to_check ==
        IF inumber < INODES_PER_BLOCK THEN InodeOf(buffer_block, inumber)
        ELSE [NoInode EXCEPT !.isvalid = u.isvalid, !.size = u.size]
  IN  IF ~s.is_mounted THEN Ret(s, -1)
      ELSE IF inumber <= 0 \/ inumber >= SuperOf(buffer_block).ninodes THEN Ret(s, -1)
      ELSE IF inode_to_check.isvalid = 0 THEN Ret(s, -1)
      ELSE Ret(s, inode_to_check.size)

\* ------------------------------------------------------------ read
\* bytes [j, j+n) of a block, as a sequence
BytesOf(blk, j, n) == [x \in 1 .. n |-> blk[j + x - 1]]

\* the number of ints that memcpy(indirected_pointers, buffer_block.pointers,
\* DATA_POINTERS_PER_BLOCK) copies: its third argument counts bytes
PointersCopied == DATA_POINTERS_PER_BLOCK \div DATA_POINTER_SIZE

\* indirected_pointers[i] of fs_read after the memcpy; g: what the part of the
\* local array that the memcpy leaves unassigned holds
ReadPointer(indblk, i, g) == IF i < PointersCopied THEN GetInt(indblk, i) ELSE g

\* the first loop of fs_read
RECURSIVE ReadDirect(_, _, _, _, _, _)
ReadDirect(dsk, inode, distance, i, j, out) ==
  IF ~(i < DATA_POINTERS_PER_INODE /\ Len(out) < distance)
  THEN [i |-> i, j |-> j, out |-> out, abort |-> FALSE]
  ELSE IF ~DiskOk(inode.direct[i])
  THEN [i |-> i, j |-> j, out |-> out, abort |-> TRUE]
  ELSE ReadDirect(dsk, inode, distance, i + 1, 0,
         out \o BytesOf(dsk[inode.direct[i]], j, min(DISK_BLOCK_SIZE - j, distance - Len(out))))

\* the second loop of fs_read
RECURSIVE ReadIndirect(_, _, _, _, _, _, _)
ReadIndirect(dsk, indblk, g, distance, i, j, out) ==
  IF ~(i < DATA_POINTERS_PER_BLOCK /\ Len(out) < distance)
  THEN [out |-> out, abort |-> FALSE]
  ELSE IF ~DiskOk(ReadPointer(indblk, i, g))
  THEN [out |-> out, abort |-> TRUE]
  ELSE ReadIndirect(dsk, indblk, g, distance, i + 1, 0,
         out \o BytesOf(dsk[ReadPointer(indblk, i, g)], j,
                        min(DISK_BLOCK_SIZE - j, distance - Len(out))))

\* ret bytes are placed in data: out
fs_read(s, inumber, length, offset, g) ==
  LET super == SuperOf(s.disk[0])
      block == inumber \div INODES_PER_BLOCK
      inode == InodeOf(s.disk[block + INODE_TABLE_START_BLOCK], inumber % INODES_PER_BLOCK)
      distance == min(length, inode.size - offset)
      d == ReadDirect(s.disk, inode, distance, offset \div DISK_BLOCK_SIZE,
                      offset % DISK_BLOCK_SIZE, << >>)
      r == ReadIndirect(s.disk, s.disk[inode.indirect], g, distance,
                        d.i - DATA_POINTERS_PER_INODE, d.j, d.out)
      none == [ret |-> 0, out |-> << >>, abort |-> FALSE]
      fault == [ret |-> 0, out |-> << >>, abort |-> TRUE]
  IN  IF ~s.is_mounted THEN none
      ELSE IF inumber <= 0 \/ inumber >= super.ninodes THEN none
      ELSE IF ~DiskOk(block + INODE_TABLE_START_BLOCK) THEN fault
      ELSE IF inode.isvalid = 0 \/ offset > inode.size THEN none
      ELSE IF d.abort \/ ~DiskOk(inode.indirect) THEN fault
      ELSE IF r.abort THEN fault
      ELSE [ret |-> Len(r.out), out |-> r.out, abort |-> FALSE]

\* the logical blocks that hold bytes [offset, offset + distance) of a file
Covering(offset, distance) ==
  IF distance <= 0 THEN {}
  ELSE (offset \div DISK_BLOCK_SIZE) .. ((offset + distance - 1) \div DISK_BLOCK_SIZE)

\* the block numbers of a sequence of disk_read calls up to the first that is
\* no block of the disk, where the process ends
UpToFault(q) ==
  IF \A k \in 1 .. Len(q) : DiskOk(q[k]) THEN q
  ELSE SubSeq(q, 1, CHOOSE k \in 1 .. Len(q) :
                      ~DiskOk(q[k]) /\ \A m \in 1 .. (k - 1) : DiskOk(q[m]))

\* the block numbers fs_read hands to disk_read, in order: the superblock, the
\* table block, direct[i] in the first loop, inode.indirect, and
\* indirected_pointers[i] in the second loop
ReadRequests(s, inumber, length, offset, g) ==
  LET super == SuperOf(s.disk[0])
      tblk == inumber \div INODES_PER_BLOCK + INODE_TABLE_START_BLOCK
      inode == InodeOf(s.disk[tblk], inumber % INODES_PER_BLOCK)
      lbs == Covering(offset, min(length, inode.size - offset))
      first == {lb \in lbs : lb < DATA_POINTERS_PER_INODE}
      second == {lb \in lbs : lb >= DATA_POINTERS_PER_INODE
                              /\ lb < DATA_POINTERS_PER_INODE + DATA_POINTERS_PER_BLOCK}
      i == offset \div DISK_BLOCK_SIZE
      loop1 == [k \in 1 .. Cardinality(first) |-> inode.direct[i + k - 1]]
      loop2 == IF DiskOk(inode.indirect)
               THEN [k \in 1 .. Cardinality(second) |->
                       ReadPointer(s.disk[inode.indirect],
                                   i + Cardinality(first) + k - 1 - DATA_POINTERS_PER_INODE,
                                   g)]
               ELSE << >>
  IN  IF ~s.is_mounted THEN << >>
      ELSE IF inumber <= 0 \/ inumber >= super.ninodes THEN <<0>>
      ELSE IF ~DiskOk(tblk) THEN <<0, tblk>>
      ELSE IF inode.isvalid = 0 \/ offset > inode.size THEN <<0, tblk>>
      ELSE UpToFault(<<0, tblk>> \o loop1 \o <<inode.indirect>> \o loop2)

\* ------------------------------------------------------------ write
\* the lowest k in from .. nblocks-1 whose bit is set, nblocks (or from, past
\* it) if none, -1 when the search leaves the storage of the bitmap
RECURSIVE FirstFreeBlock(_, _, _)
FirstFreeBlock(bbm, k, nblocks) ==
  IF k >= nblocks THEN k
  ELSE IF ~BitOk(bbm, k) THEN -1
  ELSE IF bitmap_test(bbm, k) THEN k
  ELSE FirstFreeBlock(bbm, k + 1, nblocks)

\* a variant of alloc_block whose search stops one block short of the end of
\* the disk: C12's formula must tell it from alloc_block
alloc_block_short(bbm, nblocks) ==
  LET k == FirstFreeBlock(bbm, 0, nblocks - 1)
  IN  IF k < 0 THEN [ok |-> FALSE, k |-> k, bitmap |-> bbm, abort |-> TRUE]
      ELSE IF k >= nblocks - 1 THEN [ok |-> FALSE, k |-> k, bitmap |-> bbm, abort |-> FALSE]
      ELSE [ok |-> TRUE, k |-> k, bitmap |-> bitmap_set(bbm, k, FALSE), abort |-> FALSE]

alloc_block(bbm, nblocks) ==
  LET k == FirstFreeBlock(bbm, 0, nblocks)
  IN  IF k < 0 THEN [ok |-> FALSE, k |-> k, bitmap |-> bbm, abort |-> TRUE]
      ELSE IF k = nblocks THEN [ok |-> FALSE, k |-> k, bitmap |-> bbm, abort |-> FALSE]
      ELSE IF ~BitOk(bbm, k) THEN [ok |-> FALSE, k |-> k, bitmap |-> bbm, abort |-> TRUE]
      ELSE [ok |-> TRUE, k |-> k, bitmap |-> bitmap_set(bbm, k, FALSE), abort |-> FALSE]

\* data[k] of the buffer handed to fs_write, for buffer contents number p
Data(p, k) == 1 + ((17 * p + k) % 251)

\* a block after  for ( ; j < DISK_BLOCK_SIZE && bytes_written < length; ++j )
\*                      buffer_block.data[j] = data[bytes_written++];
\* which stores n bytes
Overwrite(blk, j, n, p, bytes_written) ==
  [x \in ByteIdx |-> IF x >= j /\ x < j + n THEN Data(p, bytes_written + x - j) ELSE blk[x]]

\* a variant of the return sequence that stores offset + bytes_written as the
\* size whatever the size was: C20's formula must tell it from WriteReturn
WriteReturn_end(w, tblk, slot, offset) ==
  [w EXCEPT !.iblk = PutSize(w.iblk, slot, offset + w.bw),
            !.disk[tblk] = PutSize(w.iblk, slot, offset + w.bw),
            !.status = "ret"]

\* the return sequence of fs_write: the size update and the write of the
\* inode's table block
WriteReturn(w, tblk, slot, offset) ==
  LET size == InodeOf(w.iblk, slot).size
      iblk == PutSize(w.iblk, slot, -min(-size, -(offset + w.bw)))
  IN  [w EXCEPT !.iblk = iblk, !.disk[tblk] = iblk, !.status = "ret"]

\* the first loop of fs_write; w holds the locals and the globals it changes
RECURSIVE WriteDirect(_, _, _, _, _, _, _, _)
WriteDirect(w, tblk, slot, num_pointers, nblocks, p, length, offset) ==
  IF ~(w.i < DATA_POINTERS_PER_INODE /\ w.bw < length) THEN w
  ELSE
    LET fresh == w.i >= num_pointers
        a == alloc_block(w.bbm, nblocks)
        ptr == IF fresh THEN a.k ELSE InodeOf(w.iblk, slot).direct[w.i]
        n == min(DISK_BLOCK_SIZE - w.j, length - w.bw)
    IN  IF fresh /\ a.abort THEN [w EXCEPT !.status = "abort"]
        ELSE IF fresh /\ ~a.ok THEN WriteReturn(w, tblk, slot, offset)
        ELSE IF ~DiskOk(ptr)
        THEN [w EXCEPT !.status = "abort",
                       !.bbm = IF fresh THEN a.bitmap ELSE @]
        ELSE WriteDirect(
               [w EXCEPT !.bbm = IF fresh THEN a.bitmap ELSE @,
                         !.iblk = IF fresh THEN PutDirect(@, slot, w.i, ptr) ELSE @,
                         !.disk[ptr] = Overwrite(@, w.j, n, p, w.bw),
                         !.bw = @ + n, !.i = @ + 1, !.j = 0],
               tblk, slot, num_pointers, nblocks, p, length, offset)

\* the second loop of fs_write; w.ind is indirect_block
RECURSIVE WriteIndirect(_, _, _, _, _, _, _, _)
WriteIndirect(w, tblk, slot, num_pointers, nblocks, p, length, offset) ==
  IF ~(w.i < DATA_POINTERS_PER_BLOCK /\ w.bw < length) THEN w
  ELSE
    LET fresh == w.i >= num_pointers
        a == alloc_block(w.bbm, nblocks)
        ind == IF fresh THEN PutInt(w.ind, w.i, a.k) ELSE w.ind
        ptr == GetInt(ind, w.i)
        n == min(DISK_BLOCK_SIZE - w.j, length - w.bw)
        indirect == InodeOf(w.iblk, slot).indirect
    IN  IF fresh /\ a.abort THEN [w EXCEPT !.status = "abort"]
        ELSE IF fresh /\ ~a.ok
        THEN WriteReturn(IF w.wb THEN [w EXCEPT !.disk[indirect] = w.ind] ELSE w,
                         tblk, slot, offset)
        ELSE IF ~DiskOk(ptr) THEN [w EXCEPT !.status = "abort"]
        ELSE WriteIndirect(
               [w EXCEPT !.bbm = IF fresh THEN a.bitmap ELSE @,
                         !.ind = ind,
                         !.wb = @ \/ fresh,
                         !.disk[ptr] = Overwrite(@, w.j, n, p, w.bw),
                         !.bw = @ + n, !.i = @ + 1, !.j = 0],
               tblk, slot, num_pointers, nblocks, p, length, offset)

\* fs_write from "allocate new indirect block (if necessary)" to its end
WriteTail(w, tblk, slot, num_pointers, nblocks, p, length, offset) ==
  LET more == w.bw < length
        \* inode->size < DATA_POINTERS_PER_INODE * DISK_BLOCK_SIZE && bytes_written < length
      newind == InodeOf(w.iblk, slot).size < DATA_POINTERS_PER_INODE * DISK_BLOCK_SIZE /\ more
      a == alloc_block(w.bbm, nblocks)
      w1 == IF newind
            THEN [w EXCEPT !.bbm = a.bitmap, !.iblk = PutIndirect(@, slot, a.k)]
            ELSE w
      indirect == InodeOf(w1.iblk, slot).indirect
      w2 == [w1 EXCEPT !.ind = IF more THEN w1.disk[indirect] ELSE @,
                       !.i = @ - DATA_POINTERS_PER_INODE]
      w3 == WriteIndirect(w2, tblk, slot, num_pointers - DATA_POINTERS_PER_INODE,
                          nblocks, p, length, offset)
  IN  IF newind /\ a.abort THEN [w EXCEPT !.status = "abort"]
      ELSE IF newind /\ ~a.ok THEN WriteReturn(w, tblk, slot, offset)
      ELSE IF more /\ ~DiskOk(indirect) THEN [w1 EXCEPT !.status = "abort"]
      ELSE IF w3.status # "run" THEN w3
      ELSE WriteReturn(IF w3.wb THEN [w3 EXCEPT !.disk[indirect] = w3.ind] ELSE w3,
                       tblk, slot, offset)

\* p: the number of the buffer contents, see Data
fs_write(s, inumber, p, length, offset) ==
  LET super == SuperOf(s.disk[0])
      nblocks == super.nblocks
      tblk == inumber \div INODES_PER_BLOCK + INODE_TABLE_START_BLOCK
      slot == inumber % INODES_PER_BLOCK
      inode == InodeOf(s.disk[tblk], slot)
      num_pointers == (IF inode.size % DISK_BLOCK_SIZE > 0 THEN 1 ELSE 0)
                        + (inode.size \div DISK_BLOCK_SIZE)
      w0 == [disk |-> s.disk, bbm |-> s.disk_block_bitmap, iblk |-> s.disk[tblk],
             ind |-> ZeroBlock, bw |-> 0, i |-> offset \div DISK_BLOCK_SIZE,
             j |-> offset % DISK_BLOCK_SIZE, wb |-> FALSE, status |-> "run"]
      w1 == WriteDirect(w0, tblk, slot, num_pointers, nblocks, p, length, offset)
      w2 == IF w1.status = "run"
            THEN WriteTail(w1, tblk, slot, num_pointers, nblocks, p, length, offset)
            ELSE w1
  IN  IF inumber <= 0 \/ inumber >= super.ninodes THEN Ret(s, 0)
      ELSE IF ~DiskOk(tblk) THEN Abort(s)
      ELSE IF inode.isvalid = 0 \/ offset > inode.size THEN Ret(s, 0)
      ELSE IF w2.status = "abort" THEN Abort([s EXCEPT !.disk = w2.disk])
      ELSE Ret([s EXCEPT !.disk = w2.disk, !.disk_block_bitmap = w2.bbm], w2.bw)

\* ------------------------------------------------------------ defrag
\* move_block for the blocks srcs[k..], each followed by the update of the
\* pointer that named it: direct[k-1] of inode slot of a.target when slot >= 0,
\* pointers[k-1] of a.target otherwise.  a.data is defrag_data up to
\* defrag_data_index, cap its allocated length
RECURSIVE MoveBlocks(_, _, _, _, _, _, _)
MoveBlocks(a, srcs, k, dsk, base, cap, slot) ==
  IF a.abort \/ k > Len(srcs) THEN a
  ELSE IF ~DiskOk(srcs[k]) \/ Len(a.data) >= cap THEN [a EXCEPT !.abort = TRUE]
  ELSE MoveBlocks([a EXCEPT !.data = Append(@, dsk[srcs[k]]),
                            !.target = IF slot >= 0
                                       THEN PutDirect(@, slot, k - 1, Len(a.data) + base)
                                       ELSE PutInt(@, k - 1, Len(a.data) + base)],
                  srcs, k + 1, dsk, base, cap, slot)

\* the body of  if ( !bitmap_test(inode_table_bitmap, inumber) ) { ... }
\* acc: defrag_inode_table, defrag_data up to defrag_data_index, defrag_inumber
DefragInode(acc, ino, dsk, ninodeblocks, cap) ==
  LET base == INODE_TABLE_START_BLOCK + ninodeblocks
      tb == acc.defrag_inumber \div INODES_PER_BLOCK
      slot == acc.defrag_inumber % INODES_PER_BLOCK
      num_blocks == (ino.size + DISK_BLOCK_SIZE - 1) \div DISK_BLOCK_SIZE
      direct_blocks == IF num_blocks <= 5 THEN num_blocks ELSE 5
      indirect_blocks == IF num_blocks <= 5 THEN 0 ELSE num_blocks - 5
      table1 == [acc.table EXCEPT ![tb] = PutInode(@, slot, ino)]
      d == MoveBlocks([data |-> acc.data, target |-> table1[tb], abort |-> FALSE],
                      [k \in 1 .. direct_blocks |-> ino.direct[k - 1]],
                      1, dsk, base, cap, slot)
      srcind == dsk[ino.indirect]
      i == MoveBlocks([data |-> d.data, target |-> srcind, abort |-> FALSE],
                      [k \in 1 .. indirect_blocks |-> GetInt(srcind, k - 1)],
                      1, dsk, base, cap, -1)
  IN  IF d.abort THEN [acc EXCEPT !.abort = TRUE]
      ELSE IF indirect_blocks <= 0
      THEN [acc EXCEPT !.table[tb] = d.target, !.data = d.data, !.defrag_inumber = @ + 1]
      ELSE IF ~DiskOk(ino.indirect) \/ indirect_blocks > DATA_POINTERS_PER_BLOCK
      THEN [acc EXCEPT !.abort = TRUE]
      ELSE IF i.abort \/ Len(i.data) >= cap THEN [acc EXCEPT !.abort = TRUE]
      ELSE [acc EXCEPT !.table[tb] = PutIndirect(d.target, slot, Len(i.data) + base),
                       !.data = Append(i.data, i.target),
                       !.defrag_inumber = @ + 1]

\* the scan of fs_defrag over the inode table, from inode number inumber
RECURSIVE DefragScan(_, _, _, _, _, _)
DefragScan(acc, inumber, ibm, dsk, ninodeblocks, cap) ==
  IF acc.abort \/ inumber >= ninodeblocks * INODES_PER_BLOCK THEN acc
  ELSE IF ~DiskOk(inumber \div INODES_PER_BLOCK + INODE_TABLE_START_BLOCK)
            \/ ~BitOk(ibm, inumber)
  THEN [acc EXCEPT !.abort = TRUE]
  ELSE IF bitmap_test(ibm, inumber)
  THEN DefragScan(acc, inumber + 1, ibm, dsk, ninodeblocks, cap)
  ELSE DefragScan(
         DefragInode(acc,
           InodeOf(dsk[inumber \div INODES_PER_BLOCK + INODE_TABLE_START_BLOCK],
                   inumber % INODES_PER_BLOCK),
           dsk, ninodeblocks, cap),
         inumber + 1, ibm, dsk, ninodeblocks, cap)

\* jbyte: the byte that the part of the malloc'ed defrag_data no block was
\* moved into holds
fs_defrag(s, jbyte) ==
  LET super == SuperOf(s.disk[0])
      ninodeblocks == super.ninodeblocks
      ninodes == super.ninodes
      nblocks == super.nblocks
      cap == nblocks - ninodeblocks - 1
      base == INODE_TABLE_START_BLOCK + ninodeblocks
      acc == DefragScan([table |-> [b \in 0 .. (ninodeblocks - 1) |-> ZeroBlock],
                         data |-> << >>, defrag_inumber |-> 1, abort |-> FALSE],
                        1, s.inode_table_bitmap, s.disk, ninodeblocks, cap)
      used == Len(acc.data) + base
      ibm == [i \in DOMAIN s.inode_table_bitmap |->
                IF i >= 1 /\ i < acc.defrag_inumber THEN 0
                ELSE IF i >= acc.defrag_inumber /\ i < ninodes THEN 1
                ELSE s.inode_table_bitmap[i]]
      bbm == [i \in DOMAIN s.disk_block_bitmap |->
                IF i < used THEN 0
                ELSE IF i < nblocks - ninodeblocks - 1 THEN 1
                ELSE s.disk_block_bitmap[i]]
      \* the disk after "Write inode table to the disk"
      dskT == [b \in DOMAIN s.disk |->
                 IF b >= INODE_TABLE_START_BLOCK /\ b < base THEN acc.table[b - 1]
                 ELSE s.disk[b]]
      \* the disk after "Write data table to the disk"
      dsk == [b \in DOMAIN s.disk |->
                IF b >= base /\ b < base + cap
                THEN (IF b - base < Len(acc.data) THEN acc.data[b - base + 1]
                      ELSE [x \in ByteIdx |-> jbyte])
                ELSE dskT[b]]
  IN  IF ninodeblocks < 0 \/ cap < 0 \/ acc.abort THEN Abort(s)
      ELSE IF \E i \in 1 .. (ninodes - 1) : ~BitOk(s.inode_table_bitmap, i) THEN Abort(s)
      ELSE IF \E i \in 0 .. (used - 1) : ~BitOk(s.disk_block_bitmap, i)
      THEN Abort([s EXCEPT !.disk = dskT])
      ELSE IF base + cap > disk_size(s.disk) THEN Abort([s EXCEPT !.disk = dsk])
      ELSE Ret([s EXCEPT !.disk = dsk, !.inode_table_bitmap = ibm,
                         !.disk_block_bitmap = bbm], 1)

\* ------------------------------------------------------------ commands
\* The values an int the process never assigned is drawn from, one of each
\* kind a block number can be: no block of the disk, the superblock, the two
\* inode-table blocks, the first data block.  A process draws one value when it
\* starts and every unassigned int it reads holds it: the fields of new_inode
\* that fs_create leaves out, the part of indirected_pointers that fs_read's
\* memcpy leaves out, what fs_getsize reads past its buffer, malloc'ed memory
Garbage == {-1} \cup (0 .. (INODE_TABLE_START_BLOCK + DiskSize \div 10))
\* a bit / a byte of unassigned memory
JunkBit(g) == IF g = 0 THEN 0 ELSE 1
JunkByte(g) == ByteOf(g, 0)
\* inumber arguments: 0 and ninodes are out of range
InumArgs == 0 .. ((DiskSize \div 10) * INODES_PER_BLOCK)
WriteLens == {0, 1, DATA_POINTERS_PER_INODE * DISK_BLOCK_SIZE,
              (DATA_POINTERS_PER_INODE + PointersCopied + 1) * DISK_BLOCK_SIZE}
ReadLens == {1, MaxFileSize}

\* the size field of inode inumber as the disk holds it, 0 if there is none
DiskSizeOf(dsk, inumber) ==
  IF inumber >= 1 /\ DiskOk(inumber \div INODES_PER_BLOCK + INODE_TABLE_START_BLOCK)
  THEN InodeOf(dsk[inumber \div INODES_PER_BLOCK + INODE_TABLE_START_BLOCK],
               inumber % INODES_PER_BLOCK).size
  ELSE 0

\* offset arguments for inode inumber: the start, inside the first block, the
\* end of the file, past the end
WriteOffsets(inumber) ==
  {0, 3, DiskSizeOf(disk, inumber), DiskSizeOf(disk, inumber) + 1}
    \cap (0 .. (MaxFileSize + 1))
ReadOffsets(inumber) ==
  {0, DiskSizeOf(disk, inumber), DiskSizeOf(disk, inumber) + 1}
    \cap (0 .. (MaxFileSize + 1))

\* the contents of the buffer the n-th command hands to fs_write: every
\* command writes bytes that no earlier command wrote at the same place
PatternOf(n) == n

Rec(op, inumber, length, offset, r) ==
  [op |-> op, inumber |-> inumber, length |-> length, offset |-> offset,
   ret |-> r.ret, abort |-> r.abort]

\* phase records the shape of the run so far, the program never reads it:
\*   "fresh"      nothing has changed the disk image yet
\*   "formatted"  fs_format succeeded and nothing has changed the disk since
\*   "session"    fs_mount succeeded on a "formatted" disk; every command since
\*                returned to its caller
\*   "left"       the process of a "session" ended, its disk image remains
\*   "resumed"    fs_mount succeeded in a new process on a "left" disk image
\*   "other"      anything else (a fault ended a process, ...)
PhaseAfter(ph, op, r) ==
  IF r.abort THEN "other"
  ELSE IF op = "restart" THEN (IF ph = "session" THEN "left" ELSE "other")
  ELSE IF op = "format" /\ r.ret = 1 THEN "formatted"
  ELSE IF op = "mount" /\ r.ret = 1
       THEN (IF ph = "formatted" THEN "session"
             ELSE IF ph = "left" THEN "resumed" ELSE "other")
  ELSE IF ph \in {"fresh", "formatted", "left"} /\ r.st.disk # disk THEN "other"
  ELSE ph

\* the process state after a command whose outcome is r; a process that was
\* ended is followed by a new one on the same disk image, whose unassigned
\* memory holds any value
Commit(r, rec) ==
  /\ disk' = r.st.disk
  /\ is_mounted' = r.st.is_mounted
  /\ inode_table_bitmap' = r.st.inode_table_bitmap
  /\ disk_block_bitmap' = r.st.disk_block_bitmap
  /\ wit' = r.st.wit
  /\ junk' \in (IF r.abort \/ rec.op = "restart" THEN Garbage ELSE {junk})
  /\ phase' = PhaseAfter(phase, rec.op, r)
  /\ last' = rec
  /\ nops' = nops + 1

Init ==
  /\ disk = [b \in Blocks |-> ZeroBlock]
  /\ is_mounted = FALSE
  /\ inode_table_bitmap = << >>
  /\ disk_block_bitmap = << >>
  /\ wit = WitInit
  /\ junk \in Garbage
  /\ phase = "fresh"
  /\ last = Rec("init", 0, 0, 0, [ret |-> 0, abort |-> FALSE])
  /\ nops = 0

Format ==
  /\ nops < MaxOps
  /\ Commit(fs_format(Cur), Rec("format", 0, 0, 0, fs_format(Cur)))

Mount ==
  /\ nops < MaxOps
  /\ Commit(fs_mount(Cur, JunkBit(junk)), Rec("mount", 0, 0, 0, fs_mount(Cur, JunkBit(junk))))

Create ==
  /\ nops < MaxOps
  /\ Commit(fs_create(Cur, junk), Rec("create", 0, 0, 0, fs_create(Cur, junk)))

Delete ==
  /\ nops < MaxOps
  /\ \E inumber \in InumArgs :
       Commit(fs_delete(Cur, inumber), Rec("delete", inumber, 0, 0, fs_delete(Cur, inumber)))

Getsize ==
  /\ nops < MaxOps
  /\ \E inumber \in InumArgs :
       Commit(fs_getsize(Cur, inumber, [isvalid |-> junk, size |-> junk]),
              Rec("getsize", inumber, 0, 0,
                  fs_getsize(Cur, inumber, [isvalid |-> junk, size |-> junk])))

\* fs_read changes no global; a fault in it ends the process
ReadOutcome(r) ==
  [st |-> IF r.abort THEN Fresh(disk) ELSE Cur, ret |-> r.ret, abort |-> r.abort]

Read ==
  /\ nops < MaxOps
  /\ \E inumber \in InumArgs, length \in ReadLens :
       \E offset \in ReadOffsets(inumber) :
         Commit(ReadOutcome(fs_read(Cur, inumber, length, offset, junk)),
                Rec("read", inumber, length, offset,
                    fs_read(Cur, inumber, length, offset, junk)))

Write ==
  /\ nops < MaxOps
  /\ \E inumber \in InumArgs, length \in WriteLens :
       \E offset \in WriteOffsets(inumber) :
         Commit(fs_write(Cur, inumber, PatternOf(nops + 1), length, offset),
                Rec("write", inumber, length, offset,
                    fs_write(Cur, inumber, PatternOf(nops + 1), length, offset)))

Defrag ==
  /\ nops < MaxOps
  /\ Commit(fs_defrag(Cur, JunkByte(junk)), Rec("defrag", 0, 0, 0, fs_defrag(Cur, JunkByte(junk))))

Next == Format \/ Mount \/ Create \/ Delete \/ Getsize \/ Read \/ Write \/ Defrag

Spec == Init /\ [][Next]_vars

\* ------------------------------------------------------------ two sessions
\* A second specification follows one disk image through two processes: the
\* shell formats, mounts, creates, writes and deletes, exits, and is started
\* again on the same image.  So that runs long enough for a second session
\* are explored, its user is more orderly than that of Spec: the image is
\* formatted once, mount is called when not mounted, create and delete when
\* mounted, write at any time; the commands take two inumbers, writes of 5 and
\* of 10 blocks, at the start or at the end of a file; and a run ends with
\* the command that changes an unmounted image or that a fault ends.
MaxSessionOps == 8
SessionInums == {1, 2}
SessionLens == {DATA_POINTERS_PER_INODE * DISK_BLOCK_SIZE,
                2 * DATA_POINTERS_PER_INODE * DISK_BLOCK_SIZE}

SessionFormat ==
  /\ nops < MaxSessionOps
  /\ phase = "fresh"
  /\ Commit(fs_format(Cur), Rec("format", 0, 0, 0, fs_format(Cur)))

SessionMount ==
  /\ nops < MaxSessionOps
  /\ phase \in {"formatted", "left"}
  /\ Commit(fs_mount(Cur, JunkBit(junk)), Rec("mount", 0, 0, 0, fs_mount(Cur, JunkBit(junk))))

SessionCreate ==
  /\ nops < MaxSessionOps
  /\ phase \in {"session", "resumed"}
  /\ Commit(fs_create(Cur, junk), Rec("create", 0, 0, 0, fs_create(Cur, junk)))

SessionDelete ==
  /\ nops < MaxSessionOps
  /\ phase \in {"session", "resumed"}
  /\ \E inumber \in SessionInums :
       Commit(fs_delete(Cur, inumber), Rec("delete", inumber, 0, 0, fs_delete(Cur, inumber)))

SessionWrite ==
  /\ nops < MaxSessionOps
  /\ phase # "other"
  /\ \E inumber \in SessionInums, length \in SessionLens :
       \E offset \in {0, DiskSizeOf(disk, inumber)} \cap (0 .. MaxFileSize) :
         Commit(fs_write(Cur, inumber, PatternOf(nops + 1), length, offset),
                Rec("write", inumber, length, offset,
                    fs_write(Cur, inumber, PatternOf(nops + 1), length, offset)))

\* the shell exits and is started again on the same disk image: the globals
\* of the new process are as the loader leaves them
Restart ==
  /\ nops < MaxSessionOps
  /\ phase = "session"
  /\ Commit([st |-> Fresh(disk), ret |-> 0, abort |-> FALSE],
            Rec("restart", 0, 0, 0, [ret |-> 0, abort |-> FALSE]))

SessionNext ==
  SessionFormat \/ SessionMount \/ SessionCreate \/ SessionDelete \/ SessionWrite \/ Restart

SpecSession == Init /\ [][SessionNext]_vars

\* ------------------------------------------------------------ the file system on disk
\* what load_inode(inumber, &inode) yields
load_inode(dsk, inumber) ==
  InodeOf(dsk[inumber \div INODES_PER_BLOCK + INODE_TABLE_START_BLOCK],
          inumber % INODES_PER_BLOCK)

\* the geometry fs_format gives a disk of DiskSize blocks
FormatNinodeblocks == DiskSize \div 10
FormatNinodes == FormatNinodeblocks * INODES_PER_BLOCK

\* the inumbers 1 .. ninodes-1 of the formatted disk
Inumbers == 1 .. (FormatNinodes - 1)

\* the live inodes: those every operation accepts (isvalid is tested for nonzero)
LiveInumbers(dsk) == {i \in Inumbers : load_inode(dsk, i).isvalid # 0}

\* ceil(size / DISK_BLOCK_SIZE), at most the blocks an inode can point to
BlocksFor(size) ==
  min((size + DISK_BLOCK_SIZE - 1) \div DISK_BLOCK_SIZE,
      DATA_POINTERS_PER_INODE + DATA_POINTERS_PER_BLOCK)

\* the indirect block is in use
UsesIndirect(inode) == inode.size > DirectBytes

\* the number of the block that holds logical block lb of the inode, read the
\* way fs_write lays files out: direct[lb], then the ints of the indirect
\* block; -1 when the indirect block is no block of the disk
PointerAt(dsk, inode, lb) ==
  IF lb < DATA_POINTERS_PER_INODE THEN inode.direct[lb]
  ELSE IF DiskOk(inode.indirect)
       THEN GetInt(dsk[inode.indirect], lb - DATA_POINTERS_PER_INODE)
       ELSE -1

\* the blocks an inode uses, in order: its data blocks, then its indirect block
BlocksUsed(dsk, inode) ==
  [lb \in 1 .. BlocksFor(inode.size) |-> PointerAt(dsk, inode, lb - 1)]
    \o (IF UsesIndirect(inode) THEN <<inode.indirect>> ELSE << >>)

\* logical byte pos of the inode, -1 when its block is no block of the disk
ByteAt(dsk, inode, pos) ==
  IF DiskOk(PointerAt(dsk, inode, pos \div DISK_BLOCK_SIZE))
  THEN dsk[PointerAt(dsk, inode, pos \div DISK_BLOCK_SIZE)][pos % DISK_BLOCK_SIZE]
  ELSE -1

\* bit idx of a bitmap is inside its storage and set: the inode or block is free
IsFree(bitmap, idx) == BitOk(bitmap, idx) /\ bitmap_test(bitmap, idx)

\* the first data block of the formatted disk
DataStart == INODE_TABLE_START_BLOCK + FormatNinodeblocks

\* ------------------------------------------------------------ filling the disk
\* A third specification has the orderly user of SpecSession copy in files
\* that are larger than the disk: every write asks for as many bytes as the
\* data region holds, or for the largest file an inode can describe.
DataBlocks == DiskSize - DataStart
FillLens == {DataBlocks * DISK_BLOCK_SIZE, MaxFileSize}

FillWrite ==
  /\ nops < MaxSessionOps
  /\ phase = "session"
  /\ \E inumber \in SessionInums, length \in FillLens :
       \E offset \in {0, DiskSizeOf(disk, inumber)} \cap (0 .. MaxFileSize) :
         Commit(fs_write(Cur, inumber, PatternOf(nops + 1), length, offset),
                Rec("write", inumber, length, offset,
                    fs_write(Cur, inumber, PatternOf(nops + 1), length, offset)))

FillNext == SessionFormat \/ SessionMount \/ SessionCreate \/ SessionDelete \/ FillWrite

SpecFill == Init /\ [][FillNext]_vars

\* ------------------------------------------------------------ defragmenting
\* A fourth specification gives the orderly user of SpecSession the defrag
\* operation in place of the restart: fs_defrag is called in a session, after
\* any creates, writes and deletes.
SessionDefrag ==
  /\ nops < MaxSessionOps
  /\ phase = "session"
  /\ Commit(fs_defrag(Cur, JunkByte(junk)), Rec("defrag", 0, 0, 0, fs_defrag(Cur, JunkByte(junk))))

DefragNext ==
  SessionFormat \/ SessionMount \/ SessionCreate \/ SessionDelete \/ SessionWrite
    \/ SessionDefrag

SpecDefrag == Init /\ [][DefragNext]_vars

\* ------------------------------------------------------------ formatting any disk
\* A fifth specification starts the shell on disk images of other sizes, new
\* (all bytes 0) or used before (all bytes 255), and has its user give the
\* format command only.
MaxFormatBlocks == 30
StaleBlock == [x \in ByteIdx |-> 255]

InitFormat ==
  /\ disk \in {[b \in 0 .. (n - 1) |-> blk] :
                 n \in 1 .. MaxFormatBlocks, blk \in {ZeroBlock, StaleBlock}}
  /\ is_mounted = FALSE
  /\ inode_table_bitmap = << >>
  /\ disk_block_bitmap = << >>
  /\ wit = WitInit
  /\ junk \in Garbage
  /\ phase = "fresh"
  /\ last = Rec("init", 0, 0, 0, [ret |-> 0, abort |-> FALSE])
  /\ nops = 0

SpecFormat == InitFormat /\ [][Format]_vars

\* ------------------------------------------------------------ looking before mounting
\* A sixth specification gives the orderly user of SpecSession the debug
\* command, which it uses to look at a disk image before mounting it.
SessionDebug ==
  /\ nops < MaxSessionOps
  /\ ~is_mounted /\ phase # "other"
  /\ Commit(fs_debug(Cur), Rec("debug", 0, 0, 0, fs_debug(Cur)))

DebugNext == SessionNext \/ SessionDebug

SpecDebug == Init /\ [][DebugNext]_vars

\* ------------------------------------------------------------ the largest file
\* A seventh specification starts the shell on a disk image that has room for
\* a file of MaxFileSize bytes (5 + DATA_POINTERS_PER_BLOCK data blocks and the
\* indirect block) and one block more; fs_format gives it the inode table
\* and the first data block of the disk of DiskSize blocks.  Its orderly user
\* writes five blocks, the largest file, or one byte more than that.
LargeDiskSize == 26
LargeLens == {DirectBytes, MaxFileSize, MaxFileSize + 1}

InitLarge ==
  /\ disk = [b \in 0 .. (LargeDiskSize - 1) |-> ZeroBlock]
  /\ is_mounted = FALSE
  /\ inode_table_bitmap = << >>
  /\ disk_block_bitmap = << >>
  /\ wit = WitInit
  /\ junk \in Garbage
  /\ phase = "fresh"
  /\ last = Rec("init", 0, 0, 0, [ret |-> 0, abort |-> FALSE])
  /\ nops = 0

LargeWrite ==
  /\ nops < MaxSessionOps
  /\ phase = "session"
  /\ \E inumber \in SessionInums, length \in LargeLens :
       \E offset \in {0, DiskSizeOf(disk, inumber)} \cap (0 .. MaxFileSize) :
         Commit(fs_write(Cur, inumber, PatternOf(nops + 1), length, offset),
                Rec("write", inumber, length, offset,
                    fs_write(Cur, inumber, PatternOf(nops + 1), length, offset)))

LargeNext == SessionFormat \/ SessionMount \/ SessionCreate \/ SessionDelete \/ LargeWrite

SpecLarge == InitLarge /\ [][LargeNext]_vars

\* ------------------------------------------------------------ copying in and out
\* An eighth specification gives the user of the large disk the shell commands
\* copyin and copyout.  A host file is named by its length and the number of
\* its contents: byte k of host file p is Data(p, k).
\* sizeof(buffer) of do_copyin and do_copyout: 16384 bytes, four blocks
ChunkSize == 4 * DISK_BLOCK_SIZE

\* the number of the buffer contents that start at byte offset of host file
\* p: Data(ChunkOf(p, offset), k) = Data(p, offset + k), as 17 * 192 = 1 mod 251
ChunkOf(p, offset) == p + 192 * offset

\* the loop of do_copyin on a host file of flen bytes; result is what fread
\* returned, w the outcome of fs_write, whose ret is actual
RECURSIVE CopyinLoop(_, _, _, _, _)
CopyinWritten(w, inumber, p, flen, offset, result) ==
  IF w.abort THEN w
  ELSE IF w.ret < 0 THEN Ret(w.st, offset)
  ELSE IF w.ret # result THEN Ret(w.st, offset + w.ret)
  ELSE CopyinLoop(w.st, inumber, p, flen, offset + w.ret)

CopyinLoop(s, inumber, p, flen, offset) ==
  IF min(ChunkSize, flen - offset) <= 0 THEN Ret(s, offset)
  ELSE CopyinWritten(fs_write(s, inumber, ChunkOf(p, offset),
                              min(ChunkSize, flen - offset), offset),
                     inumber, p, flen, offset, min(ChunkSize, flen - offset))

\* ret: the "bytes copied" that do_copyin prints
do_copyin(s, p, flen, inumber) == CopyinLoop(s, inumber, p, flen, 0)

\* the loop of do_copyout; r is the outcome of fs_read, whose ret is result,
\* out is what fwrite has put in the host file
RECURSIVE CopyoutLoop(_, _, _, _, _)
CopyoutRead(r, s, inumber, g, offset, out) ==
  IF r.abort THEN [ret |-> 0, out |-> out, abort |-> TRUE]
  ELSE IF r.ret <= 0 THEN [ret |-> offset, out |-> out, abort |-> FALSE]
  ELSE CopyoutLoop(s, inumber, g, offset + r.ret, out \o r.out)

CopyoutLoop(s, inumber, g, offset, out) ==
  CopyoutRead(fs_read(s, inumber, ChunkSize, offset, g), s, inumber, g, offset, out)

do_copyout(s, inumber, g) == CopyoutLoop(s, inumber, g, 0, << >>)

\* host files: one byte, one block more than the pointers of fs_read's memcpy
\* cover, the largest file
CopyLens == {1, (DATA_POINTERS_PER_INODE + PointersCopied + 1) * DISK_BLOCK_SIZE,
             MaxFileSize}

\* the command whose handler had outcome r
Command(r, op, inumber, length) == Commit(r, Rec(op, inumber, length, 0, r))

Copyin ==
  /\ nops < MaxSessionOps
  /\ phase = "session"
  /\ \E inumber \in SessionInums, flen \in CopyLens :
       Command(do_copyin(Cur, PatternOf(nops + 1), flen, inumber), "copyin", inumber, flen)

Copyout ==
  /\ nops < MaxSessionOps
  /\ phase = "session"
  /\ \E inumber \in SessionInums :
       Command(ReadOutcome(do_copyout(Cur, inumber, junk)), "copyout", inumber, ChunkSize)

CopyNext == SessionFormat \/ SessionMount \/ SessionCreate \/ Copyin \/ Copyout

SpecCopy == InitLarge /\ [][CopyNext]_vars

\* ------------------------------------------------------------ claims
\* C1: write/read round trip.  In a session (format, mount, then commands
\* that all returned), when write(i, buf, L, O) on a live inode i with
\* O <= size(i) has just returned k, read(i, out, k, O) returns k and
\* out[0..k) = buf[0..k), also where the range lies in the indirect region.
C1_WriteReadRoundTrip ==
  (/\ phase = "session" /\ last.op = "write"
   /\ last.inumber \in LiveInumbers(disk)
   /\ last.offset <= load_inode(disk, last.inumber).size)
  => /\ ~fs_read(Cur, last.inumber, last.ret, last.offset, junk).abort
     /\ fs_read(Cur, last.inumber, last.ret, last.offset, junk).ret = last.ret
     /\ fs_read(Cur, last.inumber, last.ret, last.offset, junk).out
          = [k \in 1 .. last.ret |-> Data(PatternOf(nops), k - 1)]

\* C2: no sharing.  In a session no block number is used by two live inodes
\* and no inode uses a block twice, the blocks an inode uses being its first
\* min(ceil(size/DISK_BLOCK_SIZE), 5) direct pointers, its indirect block when
\* size > 5 blocks, and the pointers in use inside the indirect block.
C2_NoSharing ==
  phase = "session" =>
    \A i \in LiveInumbers(disk), j \in LiveInumbers(disk) :
      \A x \in DOMAIN BlocksUsed(disk, load_inode(disk, i)) :
        \A y \in DOMAIN BlocksUsed(disk, load_inode(disk, j)) :
          (i # j \/ x # y) =>
            BlocksUsed(disk, load_inode(disk, i))[x] # BlocksUsed(disk, load_inode(disk, j))[y]

\* block b is a data block of the formatted disk that the block bitmap holds as used
AccountedFor(b) ==
  /\ DataStart <= b /\ b < DiskSize
  /\ BitOk(disk_block_bitmap, b) /\ ~bitmap_test(disk_block_bitmap, b)

\* C3: block accounting.  In a session, every block b that the data walker of
\* a live inode yields, and its indirect block when size > 5 blocks, has
\* block_free[b] = 0 and 1 + ninodeblocks <= b < nblocks.
C3_BlockAccounting ==
  phase = "session" =>
    \A i \in LiveInumbers(disk) :
      /\ ~DataWalk(load_inode(disk, i), disk).abort
      /\ \A x \in DOMAIN DataWalk(load_inode(disk, i), disk).blocks :
           AccountedFor(DataWalk(load_inode(disk, i), disk).blocks[x])
      /\ UsesIndirect(load_inode(disk, i)) => AccountedFor(load_inode(disk, i).indirect)

\* C4: inode bitmap.  In a session, for every inumber i in 1 .. ninodes-1 the
\* on-disk isvalid(i) = 1 exactly when inode_free[i] = 0, and inode_free[0] = 0.
C4_InodeBitmap ==
  phase = "session" =>
    /\ BitOk(inode_table_bitmap, 0) /\ ~bitmap_test(inode_table_bitmap, 0)
    /\ \A i \in Inumbers :
         /\ BitOk(inode_table_bitmap, i)
         /\ (load_inode(disk, i).isvalid = 1) <=> ~bitmap_test(inode_table_bitmap, i)

\* block b is among the blocks some live inode uses
UsedByLive(dsk, b) ==
  \E i \in LiveInumbers(dsk) :
    \E x \in DOMAIN BlocksUsed(dsk, load_inode(dsk, i)) :
      BlocksUsed(dsk, load_inode(dsk, i))[x] = b

\* C5: remount.  When a new process mounts the disk image that a session
\* left, block_free is 0 afterwards for every block a live inode uses (its
\* data blocks, and its indirect block when size > 5 blocks); and no later
\* write of the new session allocates a block that a live inode already uses.
C5_RemountSafe ==
  [][/\ (phase' = "resumed" /\ last'.op = "mount")
          => \A b \in Blocks : UsedByLive(disk', b) => ~IsFree(disk_block_bitmap', b)
     /\ (phase = "resumed" /\ last'.op = "write")
          => \A b \in Blocks :
               (IsFree(disk_block_bitmap, b) /\ ~IsFree(disk_block_bitmap', b))
               => ~UsedByLive(disk, b)]_vars

\* C6: delete frees.  delete(i) on a live inode i of a session returns 1 and
\* afterwards isvalid(i) = 0 on disk, inode_free[i] = 1, and block_free[b] = 1
\* for every data block b the inode used and, when its size was > 5 blocks,
\* for its indirect block.

C6_DeleteFrees ==
  [][(/\ phase = "session" /\ last'.op = "delete"
      /\ last'.inumber \in LiveInumbers(disk))
     => /\ ~last'.abort /\ last'.ret = 1
        /\ load_inode(disk', last'.inumber).isvalid = 0
        /\ IsFree(inode_table_bitmap', last'.inumber)
        /\ \A x \in DOMAIN BlocksUsed(disk, load_inode(disk, last'.inumber)) :
             IsFree(disk_block_bitmap', BlocksUsed(disk, load_inode(disk, last'.inumber))[x])]_vars

\* C7: getsize.  In a session getsize(i) returns the on-disk size field of
\* inode i when 1 <= i < ninodes and the inode is live, and -1 otherwise; so
\* after create returned i and write(i, buf, L, 0) returned k, getsize(i) = k.
C7_GetsizeReturnsSize ==
  (phase = "session" /\ last.op = "getsize")
  => last.ret = (IF last.inumber \in LiveInumbers(disk)
                 THEN load_inode(disk, last.inumber).size ELSE -1)

\* C8: write is gated by mounted.  A write(i, buf, L, O) called while
\* mounted = false, the disk holding what an earlier session left, returns 0
\* and changes no disk block (a call that a fault ends returns nothing and is
\* not counted).
C8_WriteNeedsMount ==
  [][(phase = "left" /\ ~is_mounted /\ last'.op = "write" /\ ~last'.abort)
     => (last'.ret = 0 /\ disk' = disk)]_vars

\* the inumbers the inode bitmap holds as free
FreeInumbers == {i \in Inumbers : IsFree(inode_table_bitmap, i)}

\* C9: create.  In a session create() returns the lowest i in 1 .. ninodes-1
\* with inode_free[i] = 1 and makes it live with size 0, or returns 0 and
\* changes nothing when there is none; the creates that follow format and
\* mount return 1, 2, 3; after delete(i) of the lowest used inumber the next
\* create returns j with 1 <= j <= i; inumber 0 is never returned as a new
\* inode nor allocated.
C9_CreateLowestFree ==
  [][(phase = "session" /\ last'.op = "create")
     => /\ ~last'.abort
        /\ IF FreeInumbers = {}
           THEN /\ last'.ret = 0
                /\ disk' = disk
                /\ inode_table_bitmap' = inode_table_bitmap
                /\ disk_block_bitmap' = disk_block_bitmap
           ELSE /\ last'.ret \in FreeInumbers
                /\ \A i \in FreeInumbers : last'.ret <= i
                /\ load_inode(disk', last'.ret).isvalid = 1
                /\ load_inode(disk', last'.ret).size = 0
                /\ ~IsFree(inode_table_bitmap', last'.ret)
        /\ (nops = 2 /\ last.op = "mount") => last'.ret = 1
        /\ (nops = 3 /\ last.op = "create") => last'.ret = 2
        /\ (nops = 4 /\ last.op = "create" /\ LiveInumbers(disk) = {1, 2}) => last'.ret = 3
        /\ (last.op = "delete" /\ last.ret = 1
              /\ \A i \in 1 .. (last.inumber - 1) : i \in FreeInumbers)
           => (1 <= last'.ret /\ last'.ret <= last.inumber)
        /\ ~IsFree(inode_table_bitmap', 0)
        /\ load_inode(disk', 0) = load_inode(disk, 0)]_vars

\* C9 is exercised: the third create of a session that began with format and
\* mount has returned 3
C9_ThirdCreate ==
  /\ phase = "session" /\ nops = 5
  /\ last.op = "create" /\ last.ret = 3
  /\ LiveInumbers(disk) = {1, 2, 3}

\* logical byte pos of inode inumber is the same before and after a step
SameByte(inumber, pos) ==
  ByteAt(disk', load_inode(disk', inumber), pos) = ByteAt(disk, load_inode(disk, inumber), pos)

\* C10: frame of write.  When write(i, buf, L, O) returns k in a session,
\* every logical byte of inode i at a position below the old size and outside
\* [O, O+k) is unchanged, and the size and every logical byte of every other
\* live inode are unchanged.
C10_WriteFrame ==
  [][(phase = "session" /\ last'.op = "write" /\ ~last'.abort /\ disk' # disk)
     => \A j \in LiveInumbers(disk) :
          /\ j # last'.inumber =>
               /\ load_inode(disk', j).isvalid # 0
               /\ load_inode(disk', j).size = load_inode(disk, j).size
          /\ \A pos \in 0 .. (load_inode(disk, j).size - 1) :
               (j # last'.inumber \/ pos < last'.offset \/ pos >= last'.offset + last'.ret)
               => SameByte(j, pos)]_vars

\* no block of the disk is free: what alloc_block finds when it returns false
NoFreeBlock(bbm) == \A b \in Blocks : ~IsFree(bbm, b)

\* block b is one the inode points to on dsk: through a pointer that covers
\* its size, or as its indirect block
PointedTo(dsk, inode, b) ==
  \/ b = inode.indirect
  \/ \E lb \in 0 .. (BlocksFor(inode.size) - 1) : PointerAt(dsk, inode, lb) = b

\* C11: partial write on exhaustion.  When write(i, buf, L, O) of a session
\* stops early because no free block exists and returns k < L, then on disk
\* size(i) = max(old size, O + k), every block allocated during the call is
\* pointed to by the inode on disk (a direct slot, the indirect pointer, an
\* entry of the indirect block), and read(i, out, k, O) returns k and
\* out[0..k) = buf[0..k).
C11_PartialWrite ==
  [][(/\ phase = "session" /\ last'.op = "write" /\ ~last'.abort
      /\ last'.inumber \in LiveInumbers(disk)
      /\ last'.offset <= load_inode(disk, last'.inumber).size
      /\ last'.ret < last'.length
      /\ last'.offset + last'.ret < MaxFileSize
      /\ NoFreeBlock(disk_block_bitmap'))
     => /\ load_inode(disk', last'.inumber).size
             = (IF load_inode(disk, last'.inumber).size > last'.offset + last'.ret
                THEN load_inode(disk, last'.inumber).size
                ELSE last'.offset + last'.ret)
        /\ \A b \in Blocks :
             (IsFree(disk_block_bitmap, b) /\ ~IsFree(disk_block_bitmap', b))
             => PointedTo(disk', load_inode(disk', last'.inumber), b)
        /\ ~fs_read(Cur', last'.inumber, last'.ret, last'.offset, junk').abort
        /\ fs_read(Cur', last'.inumber, last'.ret, last'.offset, junk').ret = last'.ret
        /\ fs_read(Cur', last'.inumber, last'.ret, last'.offset, junk').out
             = [k \in 1 .. last'.ret |-> Data(PatternOf(nops'), k - 1)]]_vars

\* the bytes one file holds when it has taken every data block: beyond 5
\* blocks one of them is its indirect block
FillCount ==
  (IF DataBlocks > DATA_POINTERS_PER_INODE THEN DataBlocks - 1 ELSE DataBlocks)
    * DISK_BLOCK_SIZE

\* inode i of a session holds FillCount bytes and no block is free
FilledBy(i) ==
  /\ phase = "session" /\ i \in LiveInumbers(disk)
  /\ load_inode(disk, i).size = FillCount
  /\ NoFreeBlock(disk_block_bitmap)

\* the step is the first write of a session that began with format, mount and
\* create: at offset 0 into the new inode, for at least as many bytes as the
\* data region holds
FirstFill ==
  /\ nops = 3 /\ phase = "session" /\ last.op = "create" /\ last.ret >= 1
  /\ last'.op = "write" /\ last'.inumber = last.ret
  /\ last'.offset = 0 /\ last'.length >= DataBlocks * DISK_BLOCK_SIZE

\* C12 as the specification states it: on a freshly formatted and mounted
\* disk of DiskSize blocks a single write at offset 0 into a newly created
\* inode, of at least as many bytes as the data blocks hold, returns
\* DataBlocks * DISK_BLOCK_SIZE (17 x 4096 for 20 blocks of 4096 bytes).
C12_FillReturnsAllDataBlocks ==
  [][FirstFill => (~last'.abort /\ last'.ret = DataBlocks * DISK_BLOCK_SIZE)]_vars

\* C12, amended: that write returns FillCount, one block less than the data
\* region when the file needs an indirect block (16 x 4096 for 20 blocks of 4096
\* bytes); any further write at the offset equal to the resulting size
\* returns 0; and create afterwards still succeeds while an inumber is free.
C12_FillDisk ==
  [][/\ FirstFill => (~last'.abort /\ last'.ret = FillCount)
     /\ (last'.op = "write" /\ FilledBy(last'.inumber) /\ last'.offset = FillCount)
          => (~last'.abort /\ last'.ret = 0)
     /\ (last'.op = "create" /\ (\E i \in Inumbers : FilledBy(i)) /\ FreeInumbers # {})
          => (~last'.abort /\ last'.ret \in FreeInumbers
              /\ load_inode(disk', last'.ret).isvalid = 1)]_vars

\* C12 is exercised: after the fill a further write at the end of the file
\* has returned 0
C12_FurtherWrite ==
  /\ nops = 5 /\ last.op = "write" /\ last.ret = 0 /\ ~last.abort
  /\ last.length > 0 /\ last.offset = FillCount
  /\ FilledBy(last.inumber)

\* the k-th smallest element of a set of numbers
Nth(S, k) == CHOOSE x \in S : Cardinality({y \in S : y < x}) = k - 1

\* logical byte pos of an inode is held by a block of the disk
Backed(dsk, inode, pos) == DiskOk(PointerAt(dsk, inode, pos \div DISK_BLOCK_SIZE))

\* C13: defrag preserves content.  When defrag runs in a session whose live
\* inumbers are n1 < ... < nM, it returns 1 and afterwards inode k (k = 1..M)
\* is live with the size n_k had, and its logical bytes [0, size), read
\* through its rewritten direct and indirect pointers, are those of n_k before.
C13_DefragPreservesContent ==
  [][(phase = "session" /\ last'.op = "defrag")
     => /\ ~last'.abort /\ last'.ret = 1
        /\ \A k \in 1 .. Cardinality(LiveInumbers(disk)) :
             /\ load_inode(disk', k).isvalid # 0
             /\ load_inode(disk', k).size = load_inode(disk, Nth(LiveInumbers(disk), k)).size
             /\ \A pos \in 0 .. (load_inode(disk', k).size - 1) :
                  /\ Backed(disk', load_inode(disk', k), pos)
                  /\ ByteAt(disk', load_inode(disk', k), pos)
                       = ByteAt(disk, load_inode(disk, Nth(LiveInumbers(disk), k)), pos)]_vars

\* the blocks the live inodes of dsk use, as a set, and how many there are
\* when no block is used twice
LiveBlocks(dsk) == {b \in Blocks : UsedByLive(dsk, b)}
RECURSIVE BlocksInUse(_, _)
BlocksInUse(dsk, S) ==
  IF S = {} THEN 0
  ELSE LET i == CHOOSE x \in S : TRUE
       IN  Len(BlocksUsed(dsk, load_inode(dsk, i))) + BlocksInUse(dsk, S \ {i})

\* C14: defrag compacts inodes in order.  After defrag in a session with M
\* live inodes, the on-disk inodes with isvalid = 1 are exactly 1..M,
\* inode_free[i] = 0 for 1 <= i <= M and 1 for M < i < ninodes, inode k holds
\* the size of the k-th live inode before, and the blocks the live inodes use
\* are exactly 1 + ninodeblocks .. 1 + ninodeblocks + D - 1, D being the number
\* of data and indirect blocks in use.
C14_DefragCompacts ==
  [][(phase = "session" /\ last'.op = "defrag")
     => /\ ~last'.abort
        /\ \A i \in Inumbers :
             /\ (load_inode(disk', i).isvalid = 1) <=> (i <= Cardinality(LiveInumbers(disk)))
             /\ (load_inode(disk', i).isvalid # 0) => (load_inode(disk', i).isvalid = 1)
             /\ IsFree(inode_table_bitmap', i) <=> (i > Cardinality(LiveInumbers(disk)))
             /\ BitOk(inode_table_bitmap', i)
        /\ \A k \in 1 .. Cardinality(LiveInumbers(disk)) :
             load_inode(disk', k).size = load_inode(disk, Nth(LiveInumbers(disk), k)).size
        /\ LiveBlocks(disk')
             = DataStart .. (DataStart + BlocksInUse(disk, LiveInumbers(disk)) - 1)]_vars

\* the live inodes of dsk use blocks of the data region only, and none twice
Sound(dsk) ==
  /\ \A b \in LiveBlocks(dsk) : DataStart <= b
  /\ Cardinality(LiveBlocks(dsk)) = BlocksInUse(dsk, LiveInumbers(dsk))

\* C15: defrag rebuilds the block bitmap.  After a defrag of a session whose
\* live inodes used D distinct blocks of the data region, which it relocated,
\* block_free[b] = 0 for every b in [0, 1 + ninodeblocks + D) and
\* block_free[b] = 1 for every b in [1 + ninodeblocks + D, nblocks), whatever
\* the bitmap held before.
C15_DefragBitmap ==
  [][(phase = "session" /\ Sound(disk) /\ last'.op = "defrag" /\ ~last'.abort)
     => \A b \in Blocks :
          /\ BitOk(disk_block_bitmap', b)
          /\ IsFree(disk_block_bitmap', b)
               <=> (b >= DataStart + BlocksInUse(disk, LiveInumbers(disk)))]_vars

\* ceil(n / 10)
CeilTenth(n) == (n + 9) \div 10

\* C16: format.  format on an unmounted disk of any size nblocks returns 1
\* and writes a superblock with magic 0xF0F03410, nblocks = the size of the
\* disk, ninodeblocks = ceil(nblocks / 10) and ninodes = ninodeblocks *
\* INODES_PER_BLOCK, and leaves isvalid = 0 in every inode slot of every
\* inode-table block.
C16_FormatGeometry ==
  [][(last'.op = "format" /\ ~is_mounted)
     => /\ ~last'.abort /\ last'.ret = 1
        /\ SuperOf(disk'[0])
             = [magic |-> FS_MAGIC, nblocks |-> disk_size(disk),
                ninodeblocks |-> CeilTenth(disk_size(disk)),
                ninodes |-> CeilTenth(disk_size(disk)) * INODES_PER_BLOCK]
        /\ \A b \in DOMAIN disk' :
             (INODE_TABLE_START_BLOCK <= b
                /\ b < INODE_TABLE_START_BLOCK + CeilTenth(disk_size(disk)))
             => \A slot \in 0 .. (INODES_PER_BLOCK - 1) :
                  InodeOf(disk'[b], slot).isvalid = 0]_vars

\* C17: mount initializes the bitmaps from the disk.  After a successful
\* mount of a formatted disk, or of the image a session left, whatever debug
\* and format calls the process made before it: inode_free[0] = 0,
\* inode_free[i] = 1 - isvalid(i) for every i in 1 .. ninodes-1, and
\* block_free[b] = 0 for b in 0 .. ninodeblocks.
C17_MountInitializesBitmaps ==
  [][(last'.op = "mount" /\ ~last'.abort /\ last'.ret = 1
      /\ phase' \in {"session", "resumed"})
     => /\ BitOk(inode_table_bitmap', 0) /\ ~IsFree(inode_table_bitmap', 0)
        /\ \A i \in Inumbers :
             /\ BitOk(inode_table_bitmap', i)
             /\ IsFree(inode_table_bitmap', i) <=> (load_inode(disk', i).isvalid = 0)
        /\ \A b \in 0 .. FormatNinodeblocks :
             BitOk(disk_block_bitmap', b) /\ ~IsFree(disk_block_bitmap', b)]_vars

\* inumber is one the superblock on disk admits
InRange(inumber) == 1 <= inumber /\ inumber < SuperOf(disk[0]).ninodes

\* the command of this step is one the operation must reject: format or mount
\* while mounted, mount without the magic number, create, delete, read or
\* getsize while unmounted, delete, read, write or getsize of an inumber out
\* of range or of an inode that is not valid, read or write past the size
RejectedCall ==
  \/ last'.op \in {"format", "mount"} /\ is_mounted
  \/ last'.op = "mount" /\ ~is_mounted /\ SuperOf(disk[0]).magic # FS_MAGIC
  \/ last'.op \in {"create", "delete", "read", "getsize"} /\ ~is_mounted
  \/ /\ last'.op \in {"delete", "read", "write", "getsize"} /\ is_mounted
     /\ \/ ~InRange(last'.inumber)
        \/ /\ DiskOk(last'.inumber \div INODES_PER_BLOCK + INODE_TABLE_START_BLOCK)
           /\ load_inode(disk, last'.inumber).isvalid = 0
  \/ /\ last'.op \in {"read", "write"} /\ is_mounted /\ InRange(last'.inumber)
     /\ DiskOk(last'.inumber \div INODES_PER_BLOCK + INODE_TABLE_START_BLOCK)
     /\ last'.offset > load_inode(disk, last'.inumber).size

\* C18: rejected calls change nothing.  A call that must be rejected returns
\* its failure value (-1 for getsize, 0 for the others) and leaves every disk
\* block, both bitmaps and the mounted flag as they were.
C18_RejectedCallsChangeNothing ==
  [][RejectedCall
     => /\ ~last'.abort
        /\ last'.ret = (IF last'.op = "getsize" THEN -1 ELSE 0)
        /\ disk' = disk
        /\ inode_table_bitmap' = inode_table_bitmap
        /\ disk_block_bitmap' = disk_block_bitmap
        /\ is_mounted' = is_mounted]_vars

\* C19: the superblock is immutable once mounted.  In a session no call
\* (format, mount, create, delete, getsize, read, write, defrag) changes
\* block 0, and a write changes no inode record of an inode-table block
\* other than that of its target inode.
C19_SuperblockImmutable ==
  [][phase = "session"
     => /\ disk'[0] = disk[0]
        /\ last'.op = "write"
             => \A i \in 0 .. (FormatNinodes - 1) :
                  i # last'.inumber => load_inode(disk', i) = load_inode(disk, i)]_vars

\* the step is a write that fs_write accepted and returned from: the inumber
\* is in range, the inode valid, the offset not past its size
AcceptedWrite ==
  /\ last'.op = "write" /\ ~last'.abort
  /\ InRange(last'.inumber)
  /\ DiskOk(last'.inumber \div INODES_PER_BLOCK + INODE_TABLE_START_BLOCK)
  /\ load_inode(disk, last'.inumber).isvalid # 0
  /\ last'.offset <= load_inode(disk, last'.inumber).size

FreeCount(bbm) == Cardinality({b \in DOMAIN disk : IsFree(bbm, b)})

\* the blocks a write needs to take for an inode of the given size to reach
\* MaxFileSize: the data blocks it lacks, and the indirect block if it has none
NeededToCap(size) ==
  (DATA_POINTERS_PER_INODE + DATA_POINTERS_PER_BLOCK) - BlocksFor(size)
    + (IF size <= DirectBytes THEN 1 ELSE 0)

\* C21: size cap.  In a session every live inode has size <= MaxFileSize
\* ((5 + 1024) * 4096 in the source), and an accepted write whose range
\* extends past MaxFileSize returns no more than the bytes below the limit,
\* exactly that count when the bitmap holds enough free blocks, 0 when the
\* offset is at the limit, and takes no block for the part beyond the limit:
\* at the limit it changes no bitmap bit and no data block.
C21_SizeCap ==
  [][/\ phase' = "session"
          => \A i \in LiveInumbers(disk') : load_inode(disk', i).size <= MaxFileSize
     /\ (/\ phase = "session" /\ AcceptedWrite
         /\ last'.inumber \in Inumbers
         /\ last'.offset + last'.length > MaxFileSize)
          => /\ last'.ret <= MaxFileSize - last'.offset
             /\ FreeCount(disk_block_bitmap)
                    >= NeededToCap(load_inode(disk, last'.inumber).size)
                  => last'.ret = MaxFileSize - last'.offset
             /\ FreeCount(disk_block_bitmap) - FreeCount(disk_block_bitmap')
                  <= NeededToCap(load_inode(disk, last'.inumber).size)
             /\ last'.offset = MaxFileSize
                  => /\ last'.ret = 0
                     /\ disk_block_bitmap' = disk_block_bitmap
                     /\ \A b \in DOMAIN disk : b >= DataStart => disk'[b] = disk[b]]_vars

\* C21 is exercised: a write of a session whose range extends past
\* MaxFileSize has stored the bytes below the limit, and the file has
\* MaxFileSize bytes
C21_WriteToTheCap ==
  /\ phase = "session" /\ last.op = "write" /\ ~last.abort
  /\ last.inumber \in LiveInumbers(disk)
  /\ last.offset + last.length > MaxFileSize
  /\ last.ret >= 1 /\ last.ret = MaxFileSize - last.offset
  /\ load_inode(disk, last.inumber).size = MaxFileSize

\* the step is a read, in a session, of a live inode at an offset within its
\* content
ReadOfLive ==
  /\ phase = "session" /\ is_mounted /\ last'.op = "read"
  /\ InRange(last'.inumber) /\ last'.inumber \in LiveInumbers(disk)
  /\ 0 <= last'.offset /\ last'.offset <= load_inode(disk, last'.inumber).size
  /\ last'.length >= 0

\* C22: read return value.  When mounted, for a live inode i, 0 <= offset <=
\* size(i) and length >= 0, read(i, out, length, offset) returns to its caller
\* with exactly min(length, size(i) - offset), hence 0 when offset = size(i),
\* and changes no disk block and no bitmap bit.
C22_ReadReturn ==
  [][ReadOfLive
       => /\ ~last'.abort
          /\ last'.ret = min(last'.length, load_inode(disk, last'.inumber).size - last'.offset)
          /\ disk' = disk
          /\ inode_table_bitmap' = inode_table_bitmap
          /\ disk_block_bitmap' = disk_block_bitmap]_vars

\* host file p of flen bytes
HostFile(p, flen) == [k \in 1 .. flen |-> Data(p, k - 1)]

\* the step is a copyin, in a session, of a host file into an inode that is
\* live and empty, and the bitmap holds free the blocks the file needs
CopyinToNew ==
  /\ phase = "session" /\ is_mounted /\ last'.op = "copyin"
  /\ InRange(last'.inumber) /\ last'.inumber \in LiveInumbers(disk)
  /\ load_inode(disk, last'.inumber).size = 0
  /\ FreeCount(disk_block_bitmap)
       >= BlocksFor(last'.length) + (IF last'.length > DirectBytes THEN 1 ELSE 0)

\* the process state after the step
CurNext ==
  [disk |-> disk', is_mounted |-> is_mounted',
   inode_table_bitmap |-> inode_table_bitmap',
   disk_block_bitmap |-> disk_block_bitmap', wit |-> wit']

\* C23: shell round trip.  On a mounted file system with enough free blocks,
\* copyin of a host file F of at most MaxFileSize bytes into a freshly
\* created inode i copies all of F, and a copyout of i that follows returns
\* and produces output byte-identical to F, also for files that need more
\* indirect pointers than fs_read's memcpy covers.
C23_CopyRoundTrip ==
  [][CopyinToNew
       => /\ ~last'.abort /\ last'.ret = last'.length
          /\ ~do_copyout(CurNext, last'.inumber, junk').abort
          /\ do_copyout(CurNext, last'.inumber, junk').out
               = HostFile(PatternOf(nops'), last'.length)]_vars

\* the step is a write, in a session, to a live inode without indirect block
\* (size <= DirectBytes) whose range reaches logical block 5, and the bitmap
\* holds free the direct blocks the inode lacks and two blocks more, for the
\* indirect block and logical block 5
WriteNeedsIndirect ==
  /\ phase = "session" /\ is_mounted /\ last'.op = "write"
  /\ InRange(last'.inumber) /\ last'.inumber \in LiveInumbers(disk)
  /\ load_inode(disk, last'.inumber).size <= DirectBytes
  /\ last'.offset <= load_inode(disk, last'.inumber).size
  /\ last'.offset + last'.length > DirectBytes
  /\ FreeCount(disk_block_bitmap)
       >= DATA_POINTERS_PER_INODE - BlocksFor(load_inode(disk, last'.inumber).size) + 2

\* C24: indirect block allocation at the boundary.  A write that needs
\* logical block 5 or higher for an inode with size <= DirectBytes (20480 in
\* the source), size = DirectBytes included, returns with inode.indirect a
\* block of the data region that was free before the write and is not free
\* after it, and with size > DirectBytes.
C24_IndirectAtBoundary ==
  [][WriteNeedsIndirect
       => /\ ~last'.abort
          /\ load_inode(disk', last'.inumber).indirect >= DataStart
          /\ IsFree(disk_block_bitmap, load_inode(disk', last'.inumber).indirect)
          /\ ~IsFree(disk_block_bitmap', load_inode(disk', last'.inumber).indirect)
          /\ load_inode(disk', last'.inumber).size > DirectBytes]_vars

\* the bytes an accepted read(i, out, length, offset) places in out
ReadCount(inode, length, offset) == min(length, inode.size - offset)

\* C25: read touches only blocks that back the request.  A read of a live
\* inode i in a session hands to disk_read only block 0, the table block of
\* i, the data blocks that hold bytes [offset, offset + n) of i, and
\* inode.indirect only when that range reaches past DirectBytes (20480 in the
\* source), each once: for an inode with size <= DirectBytes the number in
\* inode.indirect is never read.
C25_ReadTouchesBacking ==
  [][ReadOfLive
       => /\ \A k \in DOMAIN ReadRequests(Cur, last'.inumber, last'.length, last'.offset, junk) :
               \/ ReadRequests(Cur, last'.inumber, last'.length, last'.offset, junk)[k]
                    \in {0, last'.inumber \div INODES_PER_BLOCK + INODE_TABLE_START_BLOCK}
               \/ \E lb \in Covering(last'.offset,
                                     ReadCount(load_inode(disk, last'.inumber),
                                               last'.length, last'.offset)) :
                    ReadRequests(Cur, last'.inumber, last'.length, last'.offset, junk)[k]
                      = PointerAt(disk, load_inode(disk, last'.inumber), lb)
               \/ /\ last'.offset + ReadCount(load_inode(disk, last'.inumber),
                                              last'.length, last'.offset) > DirectBytes
                  /\ ReadRequests(Cur, last'.inumber, last'.length, last'.offset, junk)[k]
                       = load_inode(disk, last'.inumber).indirect
          /\ Len(ReadRequests(Cur, last'.inumber, last'.length, last'.offset, junk))
               <= 2 + Cardinality(Covering(last'.offset,
                                           ReadCount(load_inode(disk, last'.inumber),
                                                     last'.length, last'.offset)))
                    + (IF last'.offset + ReadCount(load_inode(disk, last'.inumber),
                                                   last'.length, last'.offset) > DirectBytes
                       THEN 1 ELSE 0)]_vars

\* block b has its bit set before the step and cleared after it
Taken(b) == IsFree(disk_block_bitmap, b) /\ ~IsFree(disk_block_bitmap', b)

\* C26: allocator choice.  In a session (create, write, delete, defrag after
\* format and mount) the bits of blocks 0 .. ninodeblocks are 0, and every
\* block a write allocates lies in [1 + ninodeblocks, nblocks) and is the
\* lowest-numbered free block: no free block below it is left free.  So a
\* first write of more than DirectBytes bytes at offset 0 into inode 1 of a
\* fresh file system yields direct = the first five data blocks, indirect =
\* the sixth, first indirect pointer = the seventh, and size = its length.
C26_AllocatorChoice ==
  [][/\ phase' = "session"
          => \A b \in 0 .. FormatNinodeblocks : ~IsFree(disk_block_bitmap', b)
     /\ (phase = "session" /\ AcceptedWrite)
          => \A b \in DOMAIN disk_block_bitmap :
               Taken(b) => /\ b >= DataStart /\ b < DiskSize
                           /\ \A c \in 0 .. (b - 1) : IsFree(disk_block_bitmap, c) => Taken(c)
     /\ (/\ phase = "session" /\ AcceptedWrite /\ nops = 3
         /\ last.op = "create" /\ last.ret = 1 /\ last'.inumber = 1
         /\ last'.offset = 0 /\ last'.length > DirectBytes)
          => /\ \A d \in 0 .. (DATA_POINTERS_PER_INODE - 1) :
                  load_inode(disk', 1).direct[d] = DataStart + d
             /\ load_inode(disk', 1).indirect = DataStart + DATA_POINTERS_PER_INODE
             /\ PointerAt(disk', load_inode(disk', 1), DATA_POINTERS_PER_INODE)
                  = DataStart + DATA_POINTERS_PER_INODE + 1
             /\ load_inode(disk', 1).size = last'.length]_vars

\* C26 is exercised: the first write of a session, of more than DirectBytes
\* bytes into inode 1 of a fresh file system, has returned
C26_FirstLargeWrite ==
  /\ phase = "session" /\ nops = 4 /\ last.op = "write" /\ ~last.abort
  /\ last.inumber = 1 /\ last.offset = 0 /\ last.length > DirectBytes
  /\ last.ret = last.length
  /\ load_inode(disk, 1).indirect = DataStart + DATA_POINTERS_PER_INODE

\* block_free[b] = 0
InUse(bitmap, b) == BitOk(bitmap, b) /\ ~bitmap_test(bitmap, b)

\* C27: no block leaks within a session.  In every state reached from format
\* then mount by create, write and delete calls that all returned, every
\* data-region block b with block_free[b] = 0 is used by some live inode, as
\* a data block or as the indirect block of an inode with size > DirectBytes;
\* so when no inode is live the whole data region is free.
C27_NoLeak ==
  phase = "session" =>
    /\ \A b \in Blocks : (b >= DataStart /\ InUse(disk_block_bitmap, b)) => UsedByLive(disk, b)
    /\ LiveInumbers(disk) = {}
         => \A b \in Blocks : b >= DataStart => IsFree(disk_block_bitmap, b)

====
